---- MODULE Spec2Model ----
(***************************************************************************)
(* Model of the executable code of the SolidRusT AI documentation site.    *)
(*                                                                         *)
(* The repository is a static documentation site.  Its program code is the *)
(* API version configuration (src/config/versions.ts) and the code samples *)
(* its pages publish for readers to copy: the retry helper, the rate       *)
(* limited request queue, the conversation manager, the agent conversation *)
(* and the sliding-window document processor.  Each is modelled as its own *)
(* state machine over its own variables, with its own specification; the   *)
(* variables of the others stay at rest.                                   *)
(*                                                                         *)
(* The version configuration is a constant list, API_VERSIONS, and three   *)
(* pure lookups over it.  The list is modelled as a variable chosen once   *)
(* by Init so that the lookups are exercised on every version list up to   *)
(* MaxVersions entries, not only on the one the file ships with.           *)
(***************************************************************************)
EXTENDS Integers, Sequences, FiniteSets

\* Largest version list explored.
MaxVersions == 3

\* Version identifiers that may appear in the list or be looked up.
VersionIds == {"v1", "v2", "v3"}

\* The value JavaScript yields for a failed find() or an out-of-range index.
undefined == [id |-> "undefined", current |-> FALSE]

\* interface APIVersion: the two fields the lookups read.
APIVersion == [id : VersionIds, current : BOOLEAN]

\* Every version list of at most MaxVersions entries.
VersionLists == UNION {[1..n -> APIVersion] : n \in 0..MaxVersions}

\* The list the file ships with: one entry, v1, flagged current.
ShippedVersions == <<[id |-> "v1", current |-> TRUE]>>

VARIABLES
    API_VERSIONS,   \* the version list (constant during a behaviour)
    op,             \* the lookup called last: "none", "current", "byId", "multiple"
    arg,            \* the id passed to getVersionById, "" otherwise
    result,         \* what the last lookup returned
    \* make_request_with_retry (the retry helper of the documentation pages)
    r_helper,       \* which page's helper runs: "errors" or "rate_limits"
    r_max_retries,  \* the max_retries argument
    r_attempt,      \* the loop variable `attempt`
    r_pc,           \* "call", "sleep", "returned", "raised", "exhausted"
    r_history,      \* outcome of every client.chat.completions.create call so far
    r_waits,        \* wait_time of every time.sleep so far
    \* RateLimitedQueue and the make_request callers (Rate Limits page)
    q_rpm,          \* self.rpm
    q_request_times,\* self.request_times, a deque(maxlen=rpm) of datetimes
    q_now,          \* datetime.now(), in ticks
    q_pc,           \* per caller: "start", "sleeping", "calling", "done", "failed"
    q_wake,         \* per caller: when its asyncio.sleep ends
    q_issued,       \* the time of every API call issued so far
    \* ConversationManager (Context Limits guide)
    c_max_tokens,   \* self.max_tokens
    c_messages,     \* self.messages
    c_appended,     \* self.messages as add_message handed it to _trim_history
    c_adds,         \* number of add_message calls so far
    \* AgentConversation (Agent Chat example)
    a_messages,     \* self.messages
    a_before,       \* self.messages when the last chat call began
    a_sent,         \* the user message of the last chat call
    a_outcome,      \* how the last call ended: "none", "returned", "raised", "cleared"
    a_returned,     \* what the last chat call returned, "" if it did not return
    a_error,        \* the exception the last chat call raised, "" if none
    a_chats,        \* number of chat calls so far
    \* process_long_document (Context Limits guide)
    d_len,          \* len(tokens)
    d_chunk_size,   \* the chunk_size argument
    d_start,        \* start
    d_end,          \* end of the last chunk taken
    d_results,      \* len(results)
    d_pc            \* "loop" while in the while loop, "returned" after return

versionVars == <<API_VERSIONS, op, arg, result>>
retryVars == <<r_helper, r_max_retries, r_attempt, r_pc, r_history, r_waits>>

queueVars == <<q_rpm, q_request_times, q_now, q_pc, q_wake, q_issued>>

convVars == <<c_max_tokens, c_messages, c_appended, c_adds>>

agentVars == <<a_messages, a_before, a_sent, a_outcome, a_returned, a_error, a_chats>>

docVars == <<d_len, d_chunk_size, d_start, d_end, d_results, d_pc>>

vars == <<versionVars, retryVars, queueVars, convVars, agentVars, docVars>>

\* Array.prototype.find: the element at the least index of `matches` (the
\* indices whose element satisfies the callback), or undefined when none does.
Find(list, matches) ==
    IF matches # {}
    THEN list[CHOOSE i \in matches : \A j \in matches : i <= j]
    ELSE undefined

\* list[0] in JavaScript: the first element, undefined for an empty array.
First(list) == IF Len(list) > 0 THEN list[1] ELSE undefined

\* A getCurrentVersion that forgets the `current` flag and always takes the
\* first entry.
getCurrentVersionNoFlag(list) == First(list)

\* getCurrentVersion(): API_VERSIONS.find(v => v.current) || API_VERSIONS[0]
getCurrentVersion(list) ==
    LET found == Find(list, {i \in 1..Len(list) : list[i].current})
    IN  IF found # undefined THEN found ELSE First(list)

\* getVersionById(id): API_VERSIONS.find(v => v.id === id)
getVersionById(list, id) ==
    Find(list, {i \in 1..Len(list) : list[i].id = id})

\* hasMultipleVersions(): API_VERSIONS.length > 1
hasMultipleVersions(list) == Len(list) > 1

\* The retry helper before any call of it.
RetryIdle ==
    /\ r_helper = "errors"
    /\ r_max_retries = 0
    /\ r_attempt = 0
    /\ r_pc = "idle"
    /\ r_history = <<>>
    /\ r_waits = <<>>

\* process_long_document before it is called.
DocIdle ==
    /\ d_len = 0
    /\ d_chunk_size = 0
    /\ d_start = 0
    /\ d_end = 0
    /\ d_results = 0
    /\ d_pc = "idle"

\* The agent conversation before it is constructed.
AgentIdle ==
    /\ a_messages = <<>>
    /\ a_before = <<>>
    /\ a_sent = ""
    /\ a_outcome = "idle"
    /\ a_returned = ""
    /\ a_error = ""
    /\ a_chats = 0

\* The conversation manager before it is constructed.
ConvIdle ==
    /\ c_max_tokens = 0
    /\ c_messages = <<>>
    /\ c_appended = <<>>
    /\ c_adds = 0

\* Callers of make_request.
NumCallers == 2
Callers == 1..NumCallers

\* The queue before any caller exists.
QueueIdle ==
    /\ q_rpm = 1
    /\ q_request_times = <<>>
    /\ q_now = 0
    /\ q_pc = [c \in Callers |-> "idle"]
    /\ q_wake = [c \in Callers |-> 0]
    /\ q_issued = <<>>

\* The version lookups before any call of them, on the list the file ships.
VersionsIdle ==
    /\ API_VERSIONS = ShippedVersions
    /\ op = "none"
    /\ arg = ""
    /\ result = undefined

Init ==
    /\ API_VERSIONS \in VersionLists
    /\ op = "none"
    /\ arg = ""
    /\ result = undefined
    /\ RetryIdle
    /\ QueueIdle
    /\ ConvIdle
    /\ AgentIdle
    /\ DocIdle

CallGetCurrentVersion ==
    /\ op' = "current"
    /\ arg' = ""
    /\ result' = getCurrentVersion(API_VERSIONS)
    /\ UNCHANGED <<API_VERSIONS, retryVars, queueVars, convVars, agentVars, docVars>>

CallGetVersionById ==
    \E id \in VersionIds :
        /\ op' = "byId"
        /\ arg' = id
        /\ result' = getVersionById(API_VERSIONS, id)
        /\ UNCHANGED <<API_VERSIONS, retryVars, queueVars, convVars, agentVars, docVars>>

CallHasMultipleVersions ==
    /\ op' = "multiple"
    /\ arg' = ""
    /\ result' = hasMultipleVersions(API_VERSIONS)
    /\ UNCHANGED <<API_VERSIONS, retryVars, queueVars, convVars, agentVars, docVars>>

Next ==
    \/ CallGetCurrentVersion
    \/ CallGetVersionById
    \/ CallHasMultipleVersions

Spec == Init /\ [][Next]_vars

\* Type correctness of the model's state.
TypeOK ==
    /\ API_VERSIONS \in VersionLists
    /\ op \in {"none", "current", "byId", "multiple"}
    /\ arg \in VersionIds \cup {""}
    /\ op \in {"none", "current", "byId"} => result \in APIVersion \cup {undefined}
    /\ op = "multiple" => result \in BOOLEAN

----------------------------------------------------------------------------
(***************************************************************************)
(* make_request_with_retry: the retry helper shown on the Error Handling   *)
(* page (Python and JavaScript, same control flow) and on the Rate Limits  *)
(* page.  One call of client.chat.completions.create either returns or     *)
(* raises; the helper returns, re-raises, or sleeps and tries again.       *)
(***************************************************************************)

\* Largest max_retries explored.
MaxRetries == 3

\* The Retry-After value of the documented 429 response, in seconds.
RetryAfterSeconds == 30

\* base_delay of the Rate Limits page's helper (its default).
BaseDelay == 1

\* The two pages' helpers.
Helpers == {"errors", "rate_limits"}

\* The status codes the Error Handling helper retries.
RetriedStatusCodes == {500, 502, 503, 504}

\* What one call of client.chat.completions.create can do: return a response
\* ("ok") or raise.  retry_after is 0 when the error carries none.
CallOutcomes ==
    {[kind |-> "ok", status |-> 200, retry_after |-> 0],
     [kind |-> "AuthenticationError", status |-> 401, retry_after |-> 0],
     [kind |-> "BadRequestError", status |-> 400, retry_after |-> 0],
     [kind |-> "Exception", status |-> 0, retry_after |-> 0]}
    \cup [kind : {"RateLimitError"}, status : {429}, retry_after : {0, RetryAfterSeconds}]
    \cup [kind : {"APIError"}, status : RetriedStatusCodes \cup {404}, retry_after : {0}]

\* 2 ** attempt
RECURSIVE Pow2(_)
Pow2(n) == IF n = 0 THEN 1 ELSE 2 * Pow2(n - 1)

\* random.uniform(0, 1), in whole seconds.
Jitter == {0, 1}

\* A helper that treats every error as worth another attempt.
RetriesAnyError(helper, o) == o.kind # "ok"

\* Whether the helper's except clauses send the error o to the backoff branch:
\* RateLimitError in both helpers; APIError with status 500/502/503/504 in the
\* Error Handling helper only (the Rate Limits helper catches RateLimitError
\* alone, so every other error leaves it uncaught).
Retries(helper, o) ==
    \/ o.kind = "RateLimitError"
    \/ /\ helper = "errors"
       /\ o.kind = "APIError"
       /\ o.status \in RetriedStatusCodes

\* wait_time of the backoff branch.  Error Handling helper: retry_after or
\* 2 ** attempt + jitter for a rate limit, 2 ** attempt + jitter for a server
\* error.  Rate Limits helper: retry_after, or base_delay * 2 ** attempt + jitter.
WaitTime(helper, o, attempt, jitter) ==
    IF o.kind = "RateLimitError" /\ o.retry_after # 0
    THEN o.retry_after
    ELSE IF helper = "rate_limits"
         THEN BaseDelay * Pow2(attempt) + jitter
         ELSE Pow2(attempt) + jitter

\* A call of the helper begins: for attempt in range(max_retries).
RetryInit ==
    /\ r_helper \in Helpers
    /\ r_max_retries \in 0..MaxRetries
    /\ r_attempt = 0
    /\ r_pc = "call"
    /\ r_history = <<>>
    /\ r_waits = <<>>

\* The call returns a response and the helper returns it.
RetryCallReturns ==
    /\ r_pc = "call"
    /\ r_attempt < r_max_retries
    /\ \E o \in CallOutcomes :
        /\ o.kind = "ok"
        /\ r_history' = Append(r_history, o)
    /\ r_pc' = "returned"
    /\ UNCHANGED <<r_helper, r_max_retries, r_attempt, r_waits, versionVars, queueVars, convVars, agentVars, docVars>>

\* The call raises and the helper lets the error out: an error it does not
\* retry, or a retried kind on the last attempt (attempt == max_retries - 1).
RetryCallRaises ==
    /\ r_pc = "call"
    /\ r_attempt < r_max_retries
    /\ \E o \in CallOutcomes :
        /\ o.kind # "ok"
        /\ ~Retries(r_helper, o) \/ r_attempt = r_max_retries - 1
        /\ r_history' = Append(r_history, o)
    /\ r_pc' = "raised"
    /\ UNCHANGED <<r_helper, r_max_retries, r_attempt, r_waits, versionVars, queueVars, convVars, agentVars, docVars>>

\* The call raises a retried error before the last attempt: the helper
\* computes wait_time and calls time.sleep(wait_time).
RetryCallBacksOff ==
    /\ r_pc = "call"
    /\ r_attempt < r_max_retries
    /\ \E o \in CallOutcomes, jitter \in Jitter :
        /\ o.kind # "ok"
        /\ Retries(r_helper, o)
        /\ r_attempt # r_max_retries - 1
        /\ r_history' = Append(r_history, o)
        /\ r_waits' = Append(r_waits, WaitTime(r_helper, o, r_attempt, jitter))
    /\ r_pc' = "sleep"
    /\ UNCHANGED <<r_helper, r_max_retries, r_attempt, versionVars, queueVars, convVars, agentVars, docVars>>

\* time.sleep returns and the loop moves to the next attempt.
RetrySleepEnds ==
    /\ r_pc = "sleep"
    /\ r_attempt' = r_attempt + 1
    /\ r_pc' = "call"
    /\ UNCHANGED <<r_helper, r_max_retries, r_history, r_waits, versionVars, queueVars, convVars, agentVars, docVars>>

\* range(max_retries) is exhausted: the function falls off its end (returns
\* None).  Reached only when max_retries is 0.
RetryLoopExhausted ==
    /\ r_pc = "call"
    /\ r_attempt >= r_max_retries
    /\ r_pc' = "exhausted"
    /\ UNCHANGED <<r_helper, r_max_retries, r_attempt, r_history, r_waits, versionVars, queueVars, convVars, agentVars, docVars>>

RetryNext ==
    \/ RetryCallReturns
    \/ RetryCallRaises
    \/ RetryCallBacksOff
    \/ RetrySleepEnds
    \/ RetryLoopExhausted

\* The helper is sequential code: each of its steps is taken once enabled.
\* A call of the helper, with the rest of the site's code at rest.
InitRetry == VersionsIdle /\ RetryInit /\ QueueIdle /\ ConvIdle /\ AgentIdle /\ DocIdle

SpecRetry ==
    /\ InitRetry
    /\ [][RetryNext]_vars
    /\ WF_vars(RetryNext)

\* The helper has returned or raised.
RetryDone == r_pc \in {"returned", "raised", "exhausted"}

\* The last outcome recorded.
LastOutcome == r_history[Len(r_history)]

----------------------------------------------------------------------------
(***************************************************************************)
(* RateLimitedQueue and make_request (Rate Limits page).  The callers are  *)
(* asyncio tasks: the code between two awaits runs without interruption,   *)
(* and a task can be suspended only at `await asyncio.sleep(...)` and at   *)
(* `await client.chat.completions.create(...)`.  Time is counted in ticks. *)
(***************************************************************************)

\* timedelta(minutes=1), in ticks.
TicksPerMinute == 3

\* Last tick explored.
MaxTime == 7

\* Largest requests_per_minute explored.
MaxRpm == 2

\* deque.append on a deque(maxlen=rpm): a full deque drops its oldest entry.
DequeAppend(times, t, maxlen) ==
    IF Len(times) >= maxlen
    THEN Append(Tail(times), t)
    ELSE Append(times, t)

\* "Remove expired entries": popleft while the oldest entry is before
\* now - 1 minute.
RECURSIVE RemoveExpired(_, _)
RemoveExpired(times, now) ==
    IF times # <<>> /\ Head(times) < now - TicksPerMinute
    THEN RemoveExpired(Tail(times), now)
    ELSE times

\* wait_seconds of wait_for_slot: until one minute after the oldest entry.
WaitSeconds(times, now) == (Head(times) + TicksPerMinute) - now

\* queue = RateLimitedQueue(requests_per_minute=N); the callers are started.
QueueInit ==
    /\ q_rpm \in 1..MaxRpm
    /\ q_request_times = <<>>
    /\ q_now = 0
    /\ q_pc = [c \in Callers |-> "start"]
    /\ q_wake = [c \in Callers |-> 0]
    /\ q_issued = <<>>

\* wait_for_slot finds len(request_times) < rpm and returns; make_request
\* issues the API call and is suspended awaiting the response.
QueueIssueCall(c) ==
    /\ q_pc[c] = "start"
    /\ Len(q_request_times) < q_rpm
    /\ q_issued' = Append(q_issued, q_now)
    /\ q_pc' = [q_pc EXCEPT ![c] = "calling"]
    /\ UNCHANGED <<q_rpm, q_request_times, q_now, q_wake, versionVars, retryVars, convVars, agentVars, docVars>>

\* wait_for_slot finds the deque full and wait_seconds > 0: asyncio.sleep.
QueueSleep(c) ==
    /\ q_pc[c] = "start"
    /\ Len(q_request_times) >= q_rpm
    /\ WaitSeconds(q_request_times, q_now) > 0
    /\ q_pc' = [q_pc EXCEPT ![c] = "sleeping"]
    /\ q_wake' = [q_wake EXCEPT ![c] = q_now + WaitSeconds(q_request_times, q_now)]
    /\ UNCHANGED <<q_rpm, q_request_times, q_now, q_issued, versionVars, retryVars, convVars, agentVars, docVars>>

\* wait_for_slot finds the deque full and wait_seconds <= 0: no sleep, the
\* expired entries are removed and the while loop tests again.
QueuePurge(c) ==
    /\ q_pc[c] = "start"
    /\ Len(q_request_times) >= q_rpm
    /\ WaitSeconds(q_request_times, q_now) <= 0
    /\ q_request_times' = RemoveExpired(q_request_times, q_now)
    /\ UNCHANGED <<q_rpm, q_now, q_pc, q_wake, q_issued, versionVars, retryVars, convVars, agentVars, docVars>>

\* asyncio.sleep ends: the expired entries are removed and the while loop
\* tests again.
QueueWake(c) ==
    /\ q_pc[c] = "sleeping"
    /\ q_now >= q_wake[c]
    /\ q_request_times' = RemoveExpired(q_request_times, q_now)
    /\ q_pc' = [q_pc EXCEPT ![c] = "start"]
    /\ UNCHANGED <<q_rpm, q_now, q_wake, q_issued, versionVars, retryVars, convVars, agentVars, docVars>>

\* The response arrives: queue.record_request() appends datetime.now().
QueueRecord(c) ==
    /\ q_pc[c] = "calling"
    /\ q_request_times' = DequeAppend(q_request_times, q_now, q_rpm)
    /\ q_pc' = [q_pc EXCEPT ![c] = "done"]
    /\ UNCHANGED <<q_rpm, q_now, q_wake, q_issued, versionVars, retryVars, convVars, agentVars, docVars>>

\* The API call raises: make_request ends without record_request.
QueueCallFails(c) ==
    /\ q_pc[c] = "calling"
    /\ q_pc' = [q_pc EXCEPT ![c] = "failed"]
    /\ UNCHANGED <<q_rpm, q_request_times, q_now, q_wake, q_issued, versionVars, retryVars, convVars, agentVars, docVars>>

\* Time passes.
QueueTick ==
    /\ q_now < MaxTime
    /\ q_now' = q_now + 1
    /\ UNCHANGED <<q_rpm, q_request_times, q_pc, q_wake, q_issued, versionVars, retryVars, convVars, agentVars, docVars>>

QueueNext ==
    \/ \E c \in Callers : QueueIssueCall(c)
    \/ \E c \in Callers : QueueSleep(c)
    \/ \E c \in Callers : QueuePurge(c)
    \/ \E c \in Callers : QueueWake(c)
    \/ \E c \in Callers : QueueRecord(c)
    \/ \E c \in Callers : QueueCallFails(c)
    \/ QueueTick

\* Concurrent make_request callers, with the rest of the site's code at rest.
InitQueue == VersionsIdle /\ RetryIdle /\ QueueInit /\ ConvIdle /\ AgentIdle /\ DocIdle

SpecQueue == InitQueue /\ [][QueueNext]_vars

\* The API calls issued in the one-minute window that starts at t.
IssuedInWindow(t) ==
    {i \in 1..Len(q_issued) : t <= q_issued[i] /\ q_issued[i] < t + TicksPerMinute}

\* C27: with RateLimitedQueue(requests_per_minute=N), no more than N API calls
\* are issued within any one-minute window, for every interleaving of
\* concurrent make_request callers.
C27_AtMostRpmPerMinute ==
    \A t \in 0..MaxTime : Cardinality(IssuedInWindow(t)) <= q_rpm

----------------------------------------------------------------------------
(***************************************************************************)
(* ConversationManager (Context Limits guide).  A message is its role, the *)
(* number of tokens its content encodes to (all that _count_tokens reads), *)
(* and the number of the add_message call that added it, which tells two   *)
(* messages of equal role and length apart.                                *)
(***************************************************************************)

\* Largest number of add_message calls explored.
MaxAdds == 3

\* Largest len(encoding.encode(content)) explored.
MaxContentTokens == 2

\* Largest max_history_tokens explored.
MaxHistoryTokens == 12

\* "Message formatting overhead" added per message by _count_tokens.
MessageOverhead == 4

Roles == {"system", "user", "assistant"}

\* _count_tokens(messages)
RECURSIVE CountTokens(_)
CountTokens(messages) ==
    IF messages = <<>>
    THEN 0
    ELSE Head(messages).tokens + MessageOverhead + CountTokens(Tail(messages))

\* list.pop(i), by 0-based index i.
Pop(messages, i) ==
    SubSeq(messages, 1, i) \o SubSeq(messages, i + 2, Len(messages))

\* A _trim_history that always removes the first message, system or not.
RECURSIVE TrimHistoryPopFirst(_, _)
TrimHistoryPopFirst(messages, max_tokens) ==
    IF Len(messages) > 1 /\ CountTokens(messages) > max_tokens
    THEN TrimHistoryPopFirst(Pop(messages, 0), max_tokens)
    ELSE messages

\* _trim_history(): while more than one message is left and the count is over
\* max_tokens, pop the second message when the first is a system message,
\* the first message otherwise.
RECURSIVE TrimHistory(_, _)
TrimHistory(messages, max_tokens) ==
    IF Len(messages) > 1 /\ CountTokens(messages) > max_tokens
    THEN IF messages[1].role = "system"
         THEN TrimHistory(Pop(messages, 1), max_tokens)
         ELSE TrimHistory(Pop(messages, 0), max_tokens)
    ELSE messages

\* convo = ConversationManager(max_history_tokens=...)
ConvInit ==
    /\ c_max_tokens \in 0..MaxHistoryTokens
    /\ c_messages = <<>>
    /\ c_appended = <<>>
    /\ c_adds = 0

\* add_message(role, content): append, then _trim_history().
AddMessage ==
    /\ c_adds < MaxAdds
    /\ \E role \in Roles, tokens \in 0..MaxContentTokens :
        LET appended == Append(c_messages,
                               [role |-> role, tokens |-> tokens, id |-> c_adds + 1])
        IN  /\ c_appended' = appended
            /\ c_messages' = TrimHistory(appended, c_max_tokens)
    /\ c_adds' = c_adds + 1
    /\ UNCHANGED <<c_max_tokens, versionVars, retryVars, queueVars, agentVars, docVars>>

ConvNext == AddMessage

\* A conversation, with the rest of the site's code at rest.
InitConv == VersionsIdle /\ RetryIdle /\ QueueIdle /\ ConvInit /\ AgentIdle /\ DocIdle

SpecConv == InitConv /\ [][ConvNext]_vars

\* Positions of c_appended whose message _trim_history kept / removed.
KeptPositions ==
    {p \in 1..Len(c_appended) : \E i \in 1..Len(c_messages) : c_messages[i] = c_appended[p]}
RemovedPositions == (1..Len(c_appended)) \ KeptPositions

\* The messages of c_appended at the kept positions, in their order.
RECURSIVE KeptInOrder(_)
KeptInOrder(p) ==
    IF p > Len(c_appended)
    THEN <<>>
    ELSE IF p \in KeptPositions
         THEN <<c_appended[p]>> \o KeptInOrder(p + 1)
         ELSE KeptInOrder(p + 1)

\* C28: after every add_message call either the counted tokens of the history
\* are at most max_tokens or the history holds exactly one message; trimming
\* only removes messages and removes them oldest first (a message is kept
\* ahead of a removed one only if it is a system message at the front of the
\* history); a system message that sits at index 0 is never removed.
C28_Trimmed ==
    c_adds > 0 =>
        /\ CountTokens(c_messages) <= c_max_tokens \/ Len(c_messages) = 1
        /\ c_messages = KeptInOrder(1)
        /\ \A r \in RemovedPositions : \A k \in KeptPositions :
              k < r => /\ c_appended[k].role = "system"
                       /\ \A q \in 1..(k - 1) : q \in RemovedPositions
        /\ \A r \in RemovedPositions :
              ~(/\ c_appended[r].role = "system"
                /\ \A q \in 1..(r - 1) : q \in RemovedPositions)

\* A history of three messages led by a system message was over the limit and
\* the middle message, the oldest after the system message, was removed.
C28_Witness ==
    /\ Len(c_appended) = 3
    /\ c_appended[1].role = "system"
    /\ c_messages = <<c_appended[1], c_appended[3]>>

----------------------------------------------------------------------------
(***************************************************************************)
(* AgentConversation (Agent Chat example).  chat() appends the user        *)
(* message, posts the history, and then depends on what requests.post and  *)
(* response.json() do: each can raise, and the decoded body can report     *)
(* success, with or without a "response" field, or failure.                *)
(***************************************************************************)

\* Largest number of chat calls explored.
MaxChats == 3

\* system_prompt arguments: "" stands for None.
SystemPrompts == {"", "Be concise."}

\* User messages and agent responses.
UserMessages == {"q1", "q2"}
AgentResponses == {"r1", "r2"}

\* AgentConversation(system_prompt): the prompt, if given, opens the history.
AgentInit ==
    /\ \E system_prompt \in SystemPrompts :
        a_messages = IF system_prompt # ""
                     THEN <<[role |-> "system", content |-> system_prompt]>>
                     ELSE <<>>
    /\ a_before = <<>>
    /\ a_sent = ""
    /\ a_outcome = "none"
    /\ a_returned = ""
    /\ a_error = ""
    /\ a_chats = 0

\* self.messages.append({"role": "user", "content": message})
WithUser(messages, message) == Append(messages, [role |-> "user", content |-> message])

\* What every chat call does first: note the history, append the user message.
ChatBegins(message) ==
    /\ a_chats < MaxChats
    /\ a_chats' = a_chats + 1
    /\ a_before' = a_messages
    /\ a_sent' = message
    /\ UNCHANGED <<versionVars, retryVars, queueVars, convVars, docVars>>

\* result.get("success") is true and result["response"] exists: the assistant
\* response is appended and returned.
ChatSucceeds ==
    \E message \in UserMessages, response \in AgentResponses :
        /\ ChatBegins(message)
        /\ a_messages' = Append(WithUser(a_messages, message),
                                [role |-> "assistant", content |-> response])
        /\ a_outcome' = "returned"
        /\ a_returned' = response
        /\ a_error' = ""

\* result.get("success") is false: self.messages.pop(), then raise Exception.
ChatReportsFailure ==
    \E message \in UserMessages :
        /\ ChatBegins(message)
        /\ a_messages' = SubSeq(WithUser(a_messages, message), 1, Len(a_messages))
        /\ a_outcome' = "raised"
        /\ a_returned' = ""
        /\ a_error' = "Exception"

\* requests.post raises (connection refused, timeout): the exception leaves
\* chat() after the append; nothing catches it.
ChatPostRaises ==
    \E message \in UserMessages :
        /\ ChatBegins(message)
        /\ a_messages' = WithUser(a_messages, message)
        /\ a_outcome' = "raised"
        /\ a_returned' = ""
        /\ a_error' = "ConnectionError"

\* response.json() raises (the body is not JSON, such as a gateway's HTML
\* error page): the exception leaves chat() after the append.
ChatJsonRaises ==
    \E message \in UserMessages :
        /\ ChatBegins(message)
        /\ a_messages' = WithUser(a_messages, message)
        /\ a_outcome' = "raised"
        /\ a_returned' = ""
        /\ a_error' = "JSONDecodeError"

\* result.get("success") is true but result["response"] raises KeyError,
\* before the assistant message is appended.
ChatResponseMissing ==
    \E message \in UserMessages :
        /\ ChatBegins(message)
        /\ a_messages' = WithUser(a_messages, message)
        /\ a_outcome' = "raised"
        /\ a_returned' = ""
        /\ a_error' = "KeyError"

\* clear_history(): keep the system messages only.
ClearHistory ==
    /\ a_messages' = SelectSeq(a_messages, LAMBDA m : m.role = "system")
    /\ a_outcome' = "cleared"
    /\ UNCHANGED <<a_before, a_sent, a_returned, a_error, a_chats,
                   versionVars, retryVars, queueVars, convVars, docVars>>

AgentNext ==
    \/ ChatSucceeds
    \/ ChatReportsFailure
    \/ ChatPostRaises
    \/ ChatJsonRaises
    \/ ChatResponseMissing
    \/ ClearHistory

\* An agent conversation, with the rest of the site's code at rest.
InitAgent == VersionsIdle /\ RetryIdle /\ QueueIdle /\ ConvIdle /\ AgentInit /\ DocIdle

SpecAgent == InitAgent /\ [][AgentNext]_vars

\* C29: whenever a chat call raises instead of returning a response, the
\* history after the call equals the history before it (the failed user
\* message is not left in `messages`); when it returns, the history has grown
\* by exactly the user message followed by the assistant response.
C29_FailedMessageRemoved ==
    /\ a_outcome = "raised" => a_messages = a_before
    /\ a_outcome = "returned" =>
          a_messages = a_before \o <<[role |-> "user", content |-> a_sent],
                                     [role |-> "assistant", content |-> a_returned]>>

----------------------------------------------------------------------------
(***************************************************************************)
(* process_long_document (Context Limits guide).  The token list is        *)
(* modelled by its length: the loop reads nothing else of it.              *)
(***************************************************************************)

\* "Tokens to overlap between chunks".
Overlap == 500

\* Longest token list explored.
MaxDocTokens == 1510

\* Iterations explored: the loop is cut off after this many results.
MaxResults == 4

\* chunk_size arguments explored, all above the overlap.
ChunkSizes == {Overlap + 1, 2 * Overlap}

\* min(a, b)
Min(a, b) == IF a < b THEN a ELSE b

\* tokens = encoding.encode(document); results = []; start = 0
DocInit ==
    /\ d_len \in 0..MaxDocTokens
    /\ d_chunk_size \in ChunkSizes
    /\ d_start = 0
    /\ d_end = 0
    /\ d_results = 0
    /\ d_pc = "loop"

\* One iteration of `while start < len(tokens)`: take the chunk, append its
\* result, and set start = end - overlap.
DocIteration ==
    /\ d_pc = "loop"
    /\ d_start < d_len
    /\ d_results < MaxResults
    /\ d_end' = Min(d_start + d_chunk_size, d_len)
    /\ d_results' = d_results + 1
    /\ d_start' = d_end' - Overlap
    /\ UNCHANGED <<d_len, d_chunk_size, d_pc,
                   versionVars, retryVars, queueVars, convVars, agentVars>>

\* The loop condition is false: return results.
DocReturn ==
    /\ d_pc = "loop"
    /\ ~(d_start < d_len)
    /\ d_pc' = "returned"
    /\ UNCHANGED <<d_len, d_chunk_size, d_start, d_end, d_results,
                   versionVars, retryVars, queueVars, convVars, agentVars>>

DocNext ==
    \/ DocIteration
    \/ DocReturn

\* A call of process_long_document, with the rest of the site's code at rest.
InitDoc == VersionsIdle /\ RetryIdle /\ QueueIdle /\ ConvIdle /\ AgentIdle /\ DocInit

SpecDoc == InitDoc /\ [][DocNext]_vars

\* C30: for every document and every chunk_size greater than the 500-token
\* overlap, the sliding window start strictly advances on each iteration
\* (until it reaches the end of the token list, where the function returns
\* one result per chunk).
C30_StartAdvances == [][DocIteration => d_start' > d_start]_vars

----------------------------------------------------------------------------
\* Outcome i of the history is an error of a kind the claim calls retryable
\* whatever the helper: a rate limit, or a 500/502/503/504 server error.
IsRateLimit(o) == o.kind = "RateLimitError"
IsServerError(o) == o.kind = "APIError" /\ o.status \in RetriedStatusCodes
IsFatal(o) == o.kind \in {"AuthenticationError", "BadRequestError"}

\* Error i was let out to the caller as soon as it occurred: it is the last
\* call made and the helper has raised.
RaisedAt(i) == i = Len(r_history) /\ r_pc = "raised"

\* Error i was retried after a backoff wait (a positive sleep was started for
\* it) when an attempt was left, and let out to the caller on the last attempt.
RetriedAt(i) ==
    /\ i < r_max_retries => (Len(r_waits) >= i /\ r_waits[i] > 0)
    /\ i = r_max_retries => RaisedAt(i)

C26_Safety ==
    /\ Len(r_history) <= r_max_retries
    /\ \A i \in 1..Len(r_history) :
        /\ IsFatal(r_history[i]) => RaisedAt(i)
        /\ IsRateLimit(r_history[i]) => RetriedAt(i)
        /\ (IsServerError(r_history[i]) /\ r_helper = "errors") => RetriedAt(i)
        /\ (IsServerError(r_history[i]) /\ r_helper = "rate_limits") => RaisedAt(i)

----------------------------------------------------------------------------
\* C22: getCurrentVersion() returns the first entry of API_VERSIONS whose
\* `current` flag is true; when no entry is flagged it returns the first entry
\* of the list; and for every non-empty list the result is an entry of the list.
C22_CurrentVersion ==
    op = "current" =>
        LET n == Len(API_VERSIONS)
            flagged == {i \in 1..n : API_VERSIONS[i].current}
        IN  /\ \A i \in flagged :
                  (\A j \in 1..(i - 1) : j \notin flagged) => result = API_VERSIONS[i]
            /\ (flagged = {} /\ n > 0) => result = API_VERSIONS[1]
            /\ n > 0 => \E i \in 1..n : result = API_VERSIONS[i]

\* getCurrentVersion was called on a list whose first entry is not current
\* while a later one is.
C22_Witness ==
    /\ op = "current"
    /\ Len(API_VERSIONS) >= 2
    /\ ~API_VERSIONS[1].current
    /\ \E i \in 2..Len(API_VERSIONS) : API_VERSIONS[i].current
    /\ result.current
====
